---- MODULE Spec2Model ----
(***************************************************************************)
(* The VGA text console of Examples/os/x86_64/vga.c: the cursor (row/col), *)
(* the display memory behind the VGA pointer, and the three entry points   *)
(* vga_init, vga_write_string and vga_write_int, all built on putc.        *)
(*                                                                         *)
(* C integers keep their width.  `int` is 32 bits, int64_t is 64 bits and  *)
(* is held as four 16-bit limbs (least significant first), because the     *)
(* model checker's own integers are 32 bits wide.  The operands of a       *)
(* signed overflow (undefined behaviour in C) are resolved by a choice     *)
(* among the results an x86_64 build produces:                             *)
(*   "wrap"   - the two's-complement result of the machine instruction;    *)
(*   "assume" - the optimiser relies on the absence of overflow: an index  *)
(*              is computed in a 64-bit register without truncation, a     *)
(*              loop test that "cannot" fail is removed.                   *)
(* A trapping build (-ftrapv, sanitizers) needs a runtime the freestanding *)
(* kernel does not have and is not modelled.                               *)
(***************************************************************************)
EXTENDS Integers, Sequences, FiniteSets, TLC

WIDTH == 80
HEIGHT == 25
COLOR == 15
NL == 10
NUL == 0

INT_MAX == 2147483647
INT_MIN == -INT_MAX - 1

UBOutcomes == {"wrap", "assume"}

(***************************************************************************)
(* 32-bit signed arithmetic as the cursor code uses it.                    *)
(***************************************************************************)

\* row++ on the 32-bit static: the stored result of INT_MAX + 1 is INT_MIN.
IncInt(x) == IF x = INT_MAX THEN INT_MIN ELSE x + 1

\* x advanced by n >= 0 increments, each as IncInt.
AddInt(x, n) ==
    IF x < 0 THEN x + n
    ELSE IF n <= INT_MAX - x THEN x + n
    ELSE ((x - INT_MAX) + (n - INT_MAX)) - 2

\* row*WIDTH is exact in 32 bits for these rows.
MulFits(r) == -(INT_MAX \div WIDTH) <= r /\ r <= INT_MAX \div WIDTH

\* Low 32 bits of r*WIDTH, read as signed: WIDTH = 16*5, so
\* r*WIDTH mod 2^32 = 16 * (5*r mod 2^28).
P28 == 268435456
WrapMul(r) ==
    LET m == (5 * (r % P28)) % P28
    IN  IF m < P28 \div 2 THEN 16 * m ELSE 16 * (m - P28)

\* Low 32 bits of a + b, read as signed, for 0 <= b < WIDTH.
WrapAdd(a, b) ==
    IF a <= 0 \/ b <= INT_MAX - a THEN a + b
    ELSE (((a - INT_MAX) + b) - 1) - INT_MAX - 1

\* The cell offset row*WIDTH + col that putc hands to VGA[...], for a row
\* already below HEIGHT.  wide = TRUE: the offset was computed without
\* truncation and lies outside the 32-bit range; it is then named by the
\* pair <<row, col>> it was computed from.
Index(r, c, ub) ==
    IF MulFits(r) THEN [wide |-> FALSE, idx |-> r * WIDTH + c, at |-> <<r, c>>]
    ELSE IF ub = "wrap"
         THEN [wide |-> FALSE, idx |-> WrapAdd(WrapMul(r), c), at |-> <<r, c>>]
         ELSE [wide |-> TRUE, idx |-> 0, at |-> <<r, c>>]

\* ((uint16_t)color << 8) | (uint8_t)c
Cell(clr, c) == clr * 256 + (c % 256)

\* VGA[i] = v on the memory behind the VGA pointer, kept as the map of the
\* cell offsets stored so far (a cell never stored keeps its power-on value).
Store(mem, i, v) == (i :> v) @@ mem

(***************************************************************************)
(* putc.  st is the driver state during a call: the cursor, the memory,    *)
(* and the log of the call (stores: offsets written; wild: untruncated     *)
(* out-of-range offsets written; cols: the columns the cursor was left at; *)
(* emitted: the characters putc was called with, as runs <<c, n>>).        *)
(***************************************************************************)
\* putc with the column test written col >= WIDTH - 1.
putc_EarlyWrap(st, c, clr, ub) ==
    IF c = NL
    THEN [st EXCEPT !.row = IncInt(st.row), !.col = 0,
                    !.cols = @ \cup {0},
                    !.emitted = Append(@, <<c, 1>>)]
    ELSE LET r  == IF st.row >= HEIGHT THEN 0 ELSE st.row
             t  == Index(r, st.col, ub)
             c1 == st.col + 1
             wr == c1 >= WIDTH - 1
             nc == IF wr THEN 0 ELSE c1
         IN  [row     |-> IF wr THEN IncInt(r) ELSE r,
              col     |-> nc,
              VGA     |-> IF t.wide THEN st.VGA
                          ELSE Store(st.VGA, t.idx, Cell(clr, c)),
              stores  |-> IF t.wide THEN st.stores ELSE st.stores \cup {t.idx},
              wild    |-> IF t.wide THEN st.wild \cup {t.at} ELSE st.wild,
              cols    |-> st.cols \cup {nc},
              emitted |-> Append(st.emitted, <<c, 1>>)]

\* putc with the column test written col > WIDTH.
putc_LateWrap(st, c, clr, ub) ==
    IF c = NL
    THEN [st EXCEPT !.row = IncInt(st.row), !.col = 0,
                    !.cols = @ \cup {0},
                    !.emitted = Append(@, <<c, 1>>)]
    ELSE LET r  == IF st.row >= HEIGHT THEN 0 ELSE st.row
             t  == Index(r, st.col, ub)
             c1 == st.col + 1
             wr == c1 > WIDTH
             nc == IF wr THEN 0 ELSE c1
         IN  [row     |-> IF wr THEN IncInt(r) ELSE r,
              col     |-> nc,
              VGA     |-> IF t.wide THEN st.VGA
                          ELSE Store(st.VGA, t.idx, Cell(clr, c)),
              stores  |-> IF t.wide THEN st.stores ELSE st.stores \cup {t.idx},
              wild    |-> IF t.wide THEN st.wild \cup {t.at} ELSE st.wild,
              cols    |-> st.cols \cup {nc},
              emitted |-> Append(st.emitted, <<c, 1>>)]

\* putc without the test of the row before the store.
putc_NoTopWrap(st, c, clr, ub) ==
    IF c = NL
    THEN [st EXCEPT !.row = IncInt(st.row), !.col = 0,
                    !.cols = @ \cup {0},
                    !.emitted = Append(@, <<c, 1>>)]
    ELSE LET r  == st.row
             t  == Index(r, st.col, ub)
             c1 == st.col + 1
             wr == c1 >= WIDTH
             nc == IF wr THEN 0 ELSE c1
         IN  [row     |-> IF wr THEN IncInt(r) ELSE r,
              col     |-> nc,
              VGA     |-> IF t.wide THEN st.VGA
                          ELSE Store(st.VGA, t.idx, Cell(clr, c)),
              stores  |-> IF t.wide THEN st.stores ELSE st.stores \cup {t.idx},
              wild    |-> IF t.wide THEN st.wild \cup {t.at} ELSE st.wild,
              cols    |-> st.cols \cup {nc},
              emitted |-> Append(st.emitted, <<c, 1>>)]

\* putc with the row test written row > HEIGHT.
putc_TopWrapOffByOne(st, c, clr, ub) ==
    IF c = NL
    THEN [st EXCEPT !.row = IncInt(st.row), !.col = 0,
                    !.cols = @ \cup {0},
                    !.emitted = Append(@, <<c, 1>>)]
    ELSE LET r  == IF st.row > HEIGHT THEN 0 ELSE st.row
             t  == Index(r, st.col, ub)
             c1 == st.col + 1
             wr == c1 >= WIDTH
             nc == IF wr THEN 0 ELSE c1
         IN  [row     |-> IF wr THEN IncInt(r) ELSE r,
              col     |-> nc,
              VGA     |-> IF t.wide THEN st.VGA
                          ELSE Store(st.VGA, t.idx, Cell(clr, c)),
              stores  |-> IF t.wide THEN st.stores ELSE st.stores \cup {t.idx},
              wild    |-> IF t.wide THEN st.wild \cup {t.at} ELSE st.wild,
              cols    |-> st.cols \cup {nc},
              emitted |-> Append(st.emitted, <<c, 1>>)]

\* putc whose column wrap forgets row++.
putc_NoRowAdvance(st, c, clr, ub) ==
    IF c = NL
    THEN [st EXCEPT !.row = IncInt(st.row), !.col = 0,
                    !.cols = @ \cup {0},
                    !.emitted = Append(@, <<c, 1>>)]
    ELSE LET r  == IF st.row >= HEIGHT THEN 0 ELSE st.row
             t  == Index(r, st.col, ub)
             c1 == st.col + 1
             wr == c1 >= WIDTH
             nc == IF wr THEN 0 ELSE c1
         IN  [row     |-> r,
              col     |-> nc,
              VGA     |-> IF t.wide THEN st.VGA
                          ELSE Store(st.VGA, t.idx, Cell(clr, c)),
              stores  |-> IF t.wide THEN st.stores ELSE st.stores \cup {t.idx},
              wild    |-> IF t.wide THEN st.wild \cup {t.at} ELSE st.wild,
              cols    |-> st.cols \cup {nc},
              emitted |-> Append(st.emitted, <<c, 1>>)]

putc(st, c, clr, ub) ==
    IF c = NL
    THEN [st EXCEPT !.row = IncInt(st.row), !.col = 0,
                    !.cols = @ \cup {0},
                    !.emitted = Append(@, <<c, 1>>)]
    ELSE LET r  == IF st.row >= HEIGHT THEN 0 ELSE st.row
             t  == Index(r, st.col, ub)
             c1 == st.col + 1
             wr == c1 >= WIDTH
             nc == IF wr THEN 0 ELSE c1
         IN  [row     |-> IF wr THEN IncInt(r) ELSE r,
              col     |-> nc,
              VGA     |-> IF t.wide THEN st.VGA
                          ELSE Store(st.VGA, t.idx, Cell(clr, c)),
              stores  |-> IF t.wide THEN st.stores ELSE st.stores \cup {t.idx},
              wild    |-> IF t.wide THEN st.wild \cup {t.at} ELSE st.wild,
              cols    |-> st.cols \cup {nc},
              emitted |-> Append(st.emitted, <<c, 1>>)]

\* n >= 1 consecutive putc('\n'): each one is row++; col = 0.
putcNewlines(st, n) ==
    [st EXCEPT !.row = AddInt(st.row, n), !.col = 0,
               !.cols = @ \cup {0},
               !.emitted = Append(@, <<NL, n>>)]

\* n consecutive putc(c), n >= 1 (the run is halved to keep the evaluation
\* shallow; the calls happen in order either way).
RECURSIVE putcTimes(_, _, _, _, _)
putcTimes(st, c, n, clr, ub) ==
    IF n = 1 THEN putc(st, c, clr, ub)
    ELSE CHOOSE r \in {putcTimes(x, c, n - (n \div 2), clr, ub) :
                          x \in {putcTimes(st, c, n \div 2, clr, ub)}} : TRUE

\* A string argument is the char buffer s points to, given as runs <<c, n>>
\* of n equal bytes; a run of NUL is a terminator.
putcRun(st, run, clr, ub) ==
    IF run[1] = NL THEN putcNewlines(st, run[2])
    ELSE putcTimes(st, run[1], run[2], clr, ub)

\* The loop of vga_write_string without its test of *s: it runs to the end
\* of the buffer, over the terminators.
RECURSIVE WriteFrom_PastNul(_, _, _, _, _)
WriteFrom_PastNul(st, s, k, clr, ub) ==
    IF k > Len(s) THEN st
    ELSE IF s[k][1] = NUL THEN WriteFrom_PastNul(st, s, k + 1, clr, ub)
    ELSE CHOOSE r \in {WriteFrom_PastNul(x, s, k + 1, clr, ub) :
                          x \in {putcRun(st, s[k], clr, ub)}} : TRUE

\* while (*s) { putc(*s++); }  from run k of the buffer on.
RECURSIVE WriteFrom(_, _, _, _, _)
WriteFrom(st, s, k, clr, ub) ==
    IF s[k][1] = NUL THEN st
    ELSE CHOOSE r \in {WriteFrom(x, s, k + 1, clr, ub) :
                          x \in {putcRun(st, s[k], clr, ub)}} : TRUE

write_string(st, s, clr, ub) == WriteFrom(st, s, 1, clr, ub)

(***************************************************************************)
(* int64_t as four 16-bit limbs, least significant first.                  *)
(***************************************************************************)
LIMB == 65536

Zero64 == <<0, 0, 0, 0>>
IsZero64(v) == v = Zero64
IsNeg64(v) == v[4] >= LIMB \div 2
INT64_MIN == <<0, 0, 0, LIMB \div 2>>

\* (v * m + a) mod 2^64 for small m, a >= 0.
MulAdd64(v, m, a) ==
    LET t1 == v[1] * m + a
        t2 == v[2] * m + (t1 \div LIMB)
        t3 == v[3] * m + (t2 \div LIMB)
        t4 == v[4] * m + (t3 \div LIMB)
    IN  <<t1 % LIMB, t2 % LIMB, t3 % LIMB, t4 % LIMB>>

\* -v in 64 bits: the complement plus one; -INT64_MIN is INT64_MIN again.
Neg64(v) == MulAdd64([i \in 1..4 |-> (LIMB - 1) - v[i]], 1, 1)

\* The 64-bit pattern read as unsigned, divided by 10: <<quotient, remainder>>.
UDivMod10(v) ==
    LET r4 == v[4] % 10
        t3 == r4 * LIMB + v[3]
        t2 == (t3 % 10) * LIMB + v[2]
        t1 == (t2 % 10) * LIMB + v[1]
    IN  <<(<<t1 \div 10, t2 \div 10, t3 \div 10, v[4] \div 10>>), t1 % 10>>

\* C's v / 10 and v % 10 (truncating): for v < 0 the quotient and the
\* remainder of |v|, negated.
Div10(v) ==
    IF IsNeg64(v) THEN Neg64(UDivMod10(Neg64(v))[1]) ELSE UDivMod10(v)[1]
Mod10(v) ==
    IF IsNeg64(v) THEN -(UDivMod10(Neg64(v))[2]) ELSE UDivMod10(v)[2]

\* The int64_t a decimal literal denotes: [neg, digits], most significant
\* digit first.
RECURSIVE Magnitude(_, _)
Magnitude(ds, k) ==
    IF k = 0 THEN Zero64 ELSE MulAdd64(Magnitude(ds, k - 1), 10, ds[k])

Int64Of(lit) ==
    LET m == Magnitude(lit.digits, Len(lit.digits))
    IN  IF lit.neg THEN Neg64(m) ELSE m

(***************************************************************************)
(* vga_write_int.                                                          *)
(***************************************************************************)
TMPMAX == 31

\* while (v>0 && n<31) { tmp[n++] = '0' + (v%10); v/=10; }
\* skip = TRUE: the first test has been removed by the optimiser.
RECURSIVE CollectDigits(_, _, _)
CollectDigits(v, tmp, skip) ==
    IF (skip \/ (~IsNeg64(v) /\ ~IsZero64(v))) /\ Len(tmp) < TMPMAX
    THEN CollectDigits(Div10(v), Append(tmp, 48 + Mod10(v)), FALSE)
    ELSE tmp

\* The emitting loop run upwards: for (i=0;i<n;i++) putc(tmp[i]);
RECURSIVE EmitFrom_Forward(_, _, _, _, _)
EmitFrom_Forward(st, tmp, i, clr, ub) ==
    IF i < 1 THEN st
    ELSE CHOOSE r \in {EmitFrom_Forward(x, tmp, i - 1, clr, ub) :
                          x \in {putc(st, tmp[Len(tmp) - i + 1], clr, ub)}} : TRUE

\* for (i=n-1;i>=0;i--) putc(tmp[i]);
RECURSIVE EmitFrom(_, _, _, _, _)
EmitFrom(st, tmp, i, clr, ub) ==
    IF i < 1 THEN st
    ELSE CHOOSE r \in {EmitFrom(x, tmp, i - 1, clr, ub) :
                          x \in {putc(st, tmp[i], clr, ub)}} : TRUE

write_int(st, v, clr, ub) ==
    IF IsZero64(v) THEN putc(st, 48, clr, ub)
    ELSE LET st1 == IF IsNeg64(v) THEN putc(st, 45, clr, ub) ELSE st
             v1  == IF IsNeg64(v) THEN Neg64(v) ELSE v
             skip == v = INT64_MIN /\ ub = "assume"
         IN  CHOOSE r \in {EmitFrom(x, tmp, Len(tmp), clr, ub) :
                              x \in {st1}, tmp \in {CollectDigits(v1, <<>>, skip)}} : TRUE

(***************************************************************************)
(* Inputs.                                                                 *)
(***************************************************************************)
MaxCalls == 2

HI == -56
TERM == <<NUL, 1>>
\* HI is the byte 200 as a (signed) char.
Runs == {<<HI, 1>>, <<65, WIDTH - 1>>,
         <<NL, 1>>, <<NL, HEIGHT - 1>>, <<NL, INT_MAX>>}

\* A line filled to the last column and then ended, as kputs ends it.
FilledLine == <<<<65, WIDTH>>, <<NL, 1>>, TERM>>

\* The buffers handed to vga_write_string: up to two runs and the
\* terminator; some hold further bytes behind the terminator.
Strings ==
    {<<TERM>>} \cup {<<r, TERM>> : r \in Runs}
        \cup {<<r1, r2, TERM>> : r1 \in Runs, r2 \in Runs}
        \cup {<<TERM, r, TERM>> : r \in Runs}
        \cup {<<<<HI, 1>>, TERM, r, TERM>> : r \in Runs}
        \cup {FilledLine}

Literals ==
    {[neg |-> FALSE, digits |-> <<0>>],
     [neg |-> FALSE, digits |-> <<4, 2>>],
     [neg |-> FALSE, digits |-> <<1, 0, 0, 7, 0>>],
     [neg |-> FALSE, digits |-> <<9,2,2,3,3,7,2,0,3,6,8,5,4,7,7,5,8,0,7>>],
     [neg |-> TRUE,  digits |-> <<7>>],
     [neg |-> TRUE,  digits |-> <<9,2,2,3,3,7,2,0,3,6,8,5,4,7,7,5,8,0,7>>],
     [neg |-> TRUE,  digits |-> <<9,2,2,3,3,7,2,0,3,6,8,5,4,7,7,5,8,0,8>>]}

(***************************************************************************)
(* The driver as a state machine: one action per entry point.              *)
(***************************************************************************)
\* row, col : the cursor statics of vga.c.
\* VGA      : the memory behind the VGA pointer, by cell offset.
\* color    : the attribute static.
\* call     : the last call made (entry point and argument).
\* pre      : the cursor when that call was entered.
\* emitted, stores, wild, cols : the log of that call (see putc).
\* ncalls   : the number of calls made so far.
\* kpc      : the position of kmain of kernel.c.
\* kernel   : the values the generated functions returned to kmain (ret),
\*            how often each was invoked, and the calls kmain has made, in
\*            order (trace).
VARIABLES row, col, VGA, color, call, pre, emitted, stores, wild, cols, ncalls,
          kpc, kernel

vars == <<row, col, VGA, color, call, pre, emitted, stores, wild, cols, ncalls,
          kpc, kernel>>

Logic == {"banner", "meaning", "add", "max2", "demo_expr"}

\* kmain as the loader finds it: nothing called or returned so far.
KBoot ==
    [ret     |-> [f \in Logic |-> <<>>],
     invoked |-> [f \in Logic |-> 0],
     trace   |-> <<>>]

NoCall == [op |-> "none", s |-> <<>>, v |-> <<>>]

Init ==
    /\ row = 0
    /\ col = 0
    /\ VGA = <<>>
    /\ color = COLOR
    /\ call = NoCall
    /\ pre = [row |-> 0, col |-> 0]
    /\ emitted = <<>>
    /\ stores = {}
    /\ wild = {}
    /\ cols = {}
    /\ ncalls = 0
    /\ kpc = 0
    /\ kernel = KBoot

Enter == [row |-> row, col |-> col, VGA |-> VGA, stores |-> {}, wild |-> {},
          cols |-> {}, emitted |-> <<>>]

Leave(st, c) ==
    /\ row' = st.row
    /\ col' = st.col
    /\ VGA' = st.VGA
    /\ stores' = st.stores
    /\ wild' = st.wild
    /\ cols' = st.cols
    /\ emitted' = st.emitted
    /\ call' = c
    /\ pre' = [row |-> row, col |-> col]
    /\ ncalls' = ncalls + 1
    /\ UNCHANGED color

\* vga_init with row = 0 left out.
init_ColOnly(st) == [st EXCEPT !.col = 0]

\* void vga_init(void) { row = 0; col = 0; }
init(st) == [st EXCEPT !.row = 0, !.col = 0]

InitCall == [op |-> "init", s |-> <<>>, v |-> <<>>]

vga_init ==
    /\ ncalls < MaxCalls
    /\ Leave(init(Enter), InitCall)
    /\ UNCHANGED <<kpc, kernel>>

vga_write_string ==
    /\ ncalls < MaxCalls
    /\ \E s \in Strings, ub \in UBOutcomes :
          \E st \in {write_string(Enter, s, color, ub)} :
              Leave(st, [op |-> "write_string", s |-> s, v |-> <<>>])
    /\ UNCHANGED <<kpc, kernel>>

vga_write_int ==
    /\ ncalls < MaxCalls
    /\ \E lit \in Literals, ub \in UBOutcomes :
          \E st \in {write_int(Enter, Int64Of(lit), color, ub)} :
              Leave(st, [op |-> "write_int", s |-> <<>>, v |-> lit])
    /\ UNCHANGED <<kpc, kernel>>

Next == vga_init \/ vga_write_string \/ vga_write_int

Spec == Init /\ [][Next]_vars

(***************************************************************************)
(* What the last call did, read off its log.                               *)
(***************************************************************************)
Wrote == call.op \in {"write_string", "write_int"}

\* The last call made exactly one putc call, with character c.
OnePutc(c) == Wrote /\ emitted = <<<<c, 1>>>>

Glyphs == {HI, 48}

InGrid(i) == 0 <= i /\ i < WIDTH * HEIGHT

\* C1: every store putc performs targets a cell offset row*WIDTH+col with
\* 0 <= offset < WIDTH*HEIGHT, whatever the sequence of calls and however
\* long the runs of newlines: no cell outside the grid is addressed.
\* (stores holds the offsets that fit 32 bits; an offset logged in wild is
\* wider than that, so outside the grid as well.)
C1_StoresInGrid == \A i \in stores : InGrid(i)

\* C2: in every reachable state, and after every putc call inside a
\* driver call, the cursor column satisfies 0 <= col < WIDTH.
C2_ColInRange == col \in 0..(WIDTH - 1) /\ cols \subseteq 0..(WIDTH - 1)

C2_Witness == Wrote /\ col = WIDTH - 1 /\ 0 \in cols /\ pre.col > 0

\* C3 as stated: between driver operations the cursor row satisfies
\* 0 <= row < HEIGHT.
C3_RowBelowHeight == 0 <= row /\ row < HEIGHT

LastEmitted == emitted[Len(emitted)][1]

\* C3 as amended: the row is wrapped lazily.  Right after a putc of a
\* character other than newline the row is at most HEIGHT, and it is HEIGHT
\* only with the column back at 0.
C3_RowAfterGlyph ==
    (Wrote /\ emitted # <<>> /\ LastEmitted # NL)
        => (row <= HEIGHT /\ (row = HEIGHT => col = 0))

C3_Witness ==
    /\ Wrote /\ emitted # <<>> /\ LastEmitted # NL
    /\ row = HEIGHT /\ col = 0 /\ pre.row = HEIGHT - 1 /\ pre.col = WIDTH - 1

\* C4: for a character other than newline and a cursor with row < HEIGHT,
\* putc advances the column by one and keeps the row, except that from
\* column WIDTH-1 (and only from there) it moves to (row+1, 0).
C4_GlyphAdvance ==
    \A c \in Glyphs :
        (OnePutc(c) /\ pre.row < HEIGHT)
            => IF pre.col = WIDTH - 1
               THEN row = pre.row + 1 /\ col = 0
               ELSE row = pre.row /\ col = pre.col + 1

C4_Witness ==
    /\ \E c \in Glyphs : OnePutc(c)
    /\ pre.row = HEIGHT - 1 /\ pre.col = WIDTH - 1 /\ row = HEIGHT /\ col = 0

\* The last call was one putc(c), seen from the state before it.
OnePutcStep(c) == OnePutc(c)'

\* C5: putc of a character c other than newline changes exactly one cell
\* of the display: the cell at offset row*WIDTH+col of the cursor (row
\* taken as 0 when it is HEIGHT or more) gets c mod 256 in the low byte and
\* the attribute 0x0F in the high byte; every other cell is unchanged and
\* the attribute itself is not modified.
C5_OneCellWritten ==
    [][\A c \in Glyphs :
         OnePutcStep(c) =>
            LET r == IF row >= HEIGHT THEN 0 ELSE row
            IN  /\ r >= 0
                /\ wild' = {}
                /\ stores' = {r * WIDTH + col}
                /\ InGrid(r * WIDTH + col)
                /\ DOMAIN VGA' = (DOMAIN VGA) \cup {r * WIDTH + col}
                /\ VGA'[r * WIDTH + col] = 15 * 256 + (c % 256)
                /\ \A j \in DOMAIN VGA : j # r * WIDTH + col => VGA'[j] = VGA[j]
                /\ color' = color /\ color = 15]_vars

\* C6: a newline written from any cursor state (row, col) moves the cursor
\* to (row+1, 0) and leaves every cell unchanged.
C6_NewlineNextRow ==
    [][OnePutcStep(NL) =>
          /\ row < INT_MAX
          /\ row' = row + 1
          /\ col' = 0
          /\ VGA' = VGA /\ stores' = {} /\ wild' = {}]_vars

\* C7: a character other than newline written while the cursor row is
\* HEIGHT or more is stored in row 0, in the column the cursor had before
\* the write.
C7_OverwriteFromTop ==
    \A c \in Glyphs :
        (OnePutc(c) /\ pre.row >= HEIGHT)
            => /\ wild = {}
               /\ stores = {0 * WIDTH + pre.col}
               /\ VGA[pre.col] % 256 = c % 256

C7_Witness ==
    /\ \E c \in Glyphs : OnePutc(c)
    /\ pre.row > HEIGHT /\ stores = {pre.col} /\ row = 0

Ascii(ds) == [i \in 1..Len(ds) |-> <<48 + ds[i], 1>>]

\* C8: for v < 0, down to -2^63, vga_write_int(v) emits a minus sign and
\* then the decimal digits of -v, most significant first.
C8_NegativeDigits ==
    (call.op = "write_int" /\ call.v.neg)
        => emitted = <<(<<45, 1>>)>> \o Ascii(call.v.digits)

\* C9: for v >= 0, vga_write_int(v) emits exactly the decimal digits of v,
\* most significant first, without leading zeros or padding; for 0 the one
\* glyph '0'.
C9_DecimalDigits ==
    (call.op = "write_int" /\ ~call.v.neg) => emitted = Ascii(call.v.digits)

C9_Witness ==
    /\ call.op = "write_int" /\ ~call.v.neg
    /\ Len(emitted) = 19 /\ emitted[1] = <<57, 1>> /\ emitted[19] = <<55, 1>>

\* The characters of buffer s from run k up to the first terminator, one
\* by one.
RECURSIVE Chars(_, _)
Chars(s, k) ==
    IF s[k][1] = NUL THEN <<>>
    ELSE [i \in 1..s[k][2] |-> s[k][1]] \o Chars(s, k + 1)

\* The runs before the first terminator are short enough to be spelled out.
RECURSIVE Short(_, _)
Short(s, k) == s[k][1] = NUL \/ (s[k][2] <= WIDTH /\ Short(s, k + 1))

\* putc(cs[lo]); ... putc(cs[hi]): one call per character, left to right
\* (the range is halved to keep the evaluation shallow).
RECURSIVE PutcEach(_, _, _, _, _, _)
PutcEach(st, cs, lo, hi, clr, ub) ==
    IF lo > hi THEN st
    ELSE IF lo = hi THEN putc(st, cs[lo], clr, ub)
    ELSE LET mid == (lo + hi) \div 2
         IN  CHOOSE r \in {PutcEach(x, cs, mid + 1, hi, clr, ub) :
                              x \in {PutcEach(st, cs, lo, mid, clr, ub)}} : TRUE

\* C10: vga_write_string(s) leaves the cursor and the display as one putc
\* per character of s does, left to right, up to and without the
\* terminator; the empty string changes nothing.
C10_StringIsPutcSequence ==
    [][(call'.op = "write_string" /\ Short(call'.s, 1)) =>
          /\ \E ub \in UBOutcomes :
                \E cs \in {Chars(call'.s, 1)} :
                   \E st \in {PutcEach(Enter, cs, 1, Len(cs), color, ub)} :
                      row' = st.row /\ col' = st.col /\ VGA' = st.VGA
          /\ (call'.s[1][1] = NUL => (row' = row /\ col' = col /\ VGA' = VGA))]_vars

C10_Witness ==
    /\ call.op = "write_string"
    /\ call.s = <<(<<HI, 1>>), TERM, (<<65, WIDTH - 1>>), TERM>>
    /\ emitted = <<(<<HI, 1>>)>>
    /\ pre.col = WIDTH - 1 /\ col = 0 /\ row = pre.row + 1

(***************************************************************************)
(* vga_init, the digit loop, and the filled line.                          *)
(***************************************************************************)
\* C11: vga_init, from any state, sets the cursor to (0,0) and leaves every
\* cell of the display unchanged; a second vga_init right after the first
\* changes nothing more.
C11_InitResetsCursor ==
    [][call'.op = "init"
         => /\ row' = 0 /\ col' = 0
            /\ VGA' = VGA /\ color' = color
            /\ (call.op = "init"
                   => row' = row /\ col' = col /\ VGA' = VGA)]_vars

C11_Witness ==
    /\ call.op = "init"
    /\ pre.row # 0
    /\ DOMAIN VGA # {}
    /\ row = 0 /\ col = 0

\* v after n rounds of v /= 10.
RECURSIVE AfterLoop(_, _)
AfterLoop(v, n) ==
    IF n = 0 THEN v
    ELSE CHOOSE r \in {AfterLoop(x, n - 1) : x \in {Div10(v)}} : TRUE

\* The digits vga_write_int emitted: everything but the sign.
DigitsEmitted == Len(emitted) - (IF call.v.neg THEN 1 ELSE 0)

\* C17: the digit loop of vga_write_int stops because the value reached 0,
\* never because of the guard n < 31: for every signed 64-bit input at most
\* 19 digits are collected, none is dropped, and the index into tmp stays
\* within 0..31.
C17_LoopEndsAtZero ==
    (call.op = "write_int" /\ call.v.digits # <<0>>)
        => \A v \in {Int64Of(call.v)}, n \in {DigitsEmitted} :
              \A v1 \in {IF IsNeg64(v) THEN Neg64(v) ELSE v} :
                 /\ 0 <= n /\ n <= 19 /\ n < TMPMAX
                 /\ n = Len(call.v.digits)
                 /\ IsZero64(AfterLoop(v1, n))

\* C18: with the cursor at (r, 0), r < HEIGHT, WIDTH glyphs followed by one
\* newline leave the cursor at (r + 2, 0): the column wrap and the newline
\* each advance the row.
C18_FilledLineSkipsRow ==
    (call.op = "write_string" /\ call.s = FilledLine
       /\ pre.col = 0 /\ pre.row < HEIGHT)
        => row = pre.row + 2 /\ col = 0

C18_Witness ==
    /\ call.op = "write_string" /\ call.s = FilledLine
    /\ pre.col = 0 /\ pre.row = HEIGHT - 1
    /\ row = HEIGHT + 1

(***************************************************************************)
(* kernel.c: kmain, one step per call it makes.                            *)
(***************************************************************************)
\* A string literal as a buffer: its characters and the terminator.
Str(cs) == [i \in 1..Len(cs) |-> <<cs[i], 1>>] \o <<TERM>>

Online    == Str(<<70, 85, 83, 69, 32, 107, 101, 114, 110, 101, 108, 32, 111, 110, 108, 105, 110, 101>>)
Eol       == Str(<<NL>>)
BannerLbl == Str(<<98, 97, 110, 110, 101, 114, 58, 32>>)
MeaningLbl == Str(<<109, 101, 97, 110, 105, 110, 103, 58, 32>>)
AddLbl    == Str(<<97, 100, 100, 40, 50, 48, 44, 50, 50, 41, 58, 32>>)
Max2Lbl   == Str(<<109, 97, 120, 50, 40, 49, 49, 44, 49, 55, 41, 58, 32>>)
DemoLbl   == Str(<<100, 101, 109, 111, 95, 101, 120, 112, 114, 58, 32>>)

\* What the generated functions may return: banner a terminated string
\* (empty, short, 71 and 72 characters, one with a newline), the others a
\* signed 64-bit value, given in decimal.
Returns(f) ==
    IF f = "banner"
    THEN {<<TERM>>, Str(<<72, 105>>), <<<<66, 71>>, TERM>>,
          <<<<66, 72>>, TERM>>, Str(<<72, NL, 105>>)}
    ELSE {[neg |-> FALSE, digits |-> <<4, 2>>],
          [neg |-> TRUE,  digits |-> <<9,2,2,3,3,7,2,0,3,6,8,5,4,7,7,5,8,0,7>>],
          [neg |-> TRUE,  digits |-> <<9,2,2,3,3,7,2,0,3,6,8,5,4,7,7,5,8,0,8>>]}

\* The calls of kmain in program order: "puts" is vga_write_string of a
\* literal, "putstr" of the string a function returned, "putint"
\* vga_write_int of the value a function returned, and "logic" the call of
\* a generated function.
\* Lines 9 and 10: vga_init(); kputs("FUSE kernel online");
KStart ==
    <<[op |-> "init", s |-> <<>>, f |-> "", args |-> <<>>],
      [op |-> "puts", s |-> Online, f |-> "", args |-> <<>>],
      [op |-> "puts", s |-> Eol, f |-> "", args |-> <<>>]>>

\* Lines 12 to 16.
KCalls ==
    <<[op |-> "logic", s |-> <<>>, f |-> "banner", args |-> <<>>],
      [op |-> "logic", s |-> <<>>, f |-> "meaning", args |-> <<>>],
      [op |-> "logic", s |-> <<>>, f |-> "add", args |-> <<20, 22>>],
      [op |-> "logic", s |-> <<>>, f |-> "max2", args |-> <<11, 17>>],
      [op |-> "logic", s |-> <<>>, f |-> "demo_expr", args |-> <<>>]>>

\* Lines 18 to 22, three calls each.
KLines ==
    <<[op |-> "puts", s |-> BannerLbl, f |-> "", args |-> <<>>],
      [op |-> "putstr", s |-> <<>>, f |-> "banner", args |-> <<>>],
      [op |-> "puts", s |-> Eol, f |-> "", args |-> <<>>],
      [op |-> "puts", s |-> MeaningLbl, f |-> "", args |-> <<>>],
      [op |-> "putint", s |-> <<>>, f |-> "meaning", args |-> <<>>],
      [op |-> "puts", s |-> Eol, f |-> "", args |-> <<>>],
      [op |-> "puts", s |-> AddLbl, f |-> "", args |-> <<>>],
      [op |-> "putint", s |-> <<>>, f |-> "add", args |-> <<>>],
      [op |-> "puts", s |-> Eol, f |-> "", args |-> <<>>],
      [op |-> "puts", s |-> Max2Lbl, f |-> "", args |-> <<>>],
      [op |-> "putint", s |-> <<>>, f |-> "max2", args |-> <<>>],
      [op |-> "puts", s |-> Eol, f |-> "", args |-> <<>>],
      [op |-> "puts", s |-> DemoLbl, f |-> "", args |-> <<>>],
      [op |-> "putint", s |-> <<>>, f |-> "demo_expr", args |-> <<>>],
      [op |-> "puts", s |-> Eol, f |-> "", args |-> <<>>]>>

\* kmain with demo_expr called a second time.
Prog_DemoTwice == KStart \o KCalls \o <<KCalls[5]>> \o KLines

\* kmain rendering the add line before the meaning line.
Prog_AddFirst ==
    KStart \o KCalls \o SubSeq(KLines, 1, 3) \o SubSeq(KLines, 7, 9)
        \o SubSeq(KLines, 4, 6) \o SubSeq(KLines, 10, 15)

Prog == KStart \o KCalls \o KLines

\* The positions of kmain: 0 on entry, k before the k-th call of Prog, HLT
\* in the hlt of line 23, WOKEN when an interrupt has ended that hlt.
HLT   == Len(Prog) + 1
WOKEN == Len(Prog) + 2

\* kmain halting right after vga_init.
NextPc_HaltEarly(pc) ==
    IF pc = WOKEN \/ pc = 1 THEN HLT ELSE pc + 1

\* kmain starting over after the first interrupt: no for(;;) around hlt.
NextPc_Leave(pc) ==
    IF pc = WOKEN THEN 0 ELSE pc + 1

\* Straight-line code up to the loop; for(;;) leads from the end of hlt
\* back into hlt.
NextPc(pc) ==
    IF pc = WOKEN THEN HLT ELSE pc + 1

AtCall(op) ==
    kpc \in 1..Len(Prog) /\ Prog[kpc].op \in op

\* kmain has made one more call, c.
Advance(c) ==
    /\ kpc' = NextPc(kpc)
    /\ kernel' = [kernel EXCEPT !.trace = Append(@, c)]

Driver == <<row, col, VGA, color, call, pre, emitted, stores, wild, cols,
            ncalls>>

\* The loader enters kmain.
KEnter ==
    /\ kpc = 0
    /\ kpc' = NextPc(kpc)
    /\ UNCHANGED <<Driver, kernel>>

KInit ==
    /\ AtCall({"init"})
    /\ Leave(init(Enter), InitCall)
    /\ Advance(InitCall)

KWriteString ==
    /\ AtCall({"puts", "putstr"})
    /\ \E s \in {IF Prog[kpc].op = "puts" THEN Prog[kpc].s
                  ELSE kernel.ret[Prog[kpc].f]},
          ub \in UBOutcomes :
          \E st \in {write_string(Enter, s, color, ub)},
             c \in {[op |-> "write_string", s |-> s, v |-> <<>>]} :
              Leave(st, c) /\ Advance(c)

KWriteInt ==
    /\ AtCall({"putint"})
    /\ \E lit \in {kernel.ret[Prog[kpc].f]}, ub \in UBOutcomes :
          \E st \in {write_int(Enter, Int64Of(lit), color, ub)},
             c \in {[op |-> "write_int", s |-> <<>>, v |-> lit]} :
              Leave(st, c) /\ Advance(c)

\* A generated function is called and returns.
KLogic ==
    /\ AtCall({"logic"})
    /\ \E f \in {Prog[kpc].f} :
          \E r \in Returns(f) :
              /\ kpc' = NextPc(kpc)
              /\ kernel' = [kernel EXCEPT
                               !.trace = Append(@, [op |-> f, s |-> <<>>,
                                                    v |-> Prog[kpc].args]),
                               !.ret[f] = r, !.invoked[f] = @ + 1]
    /\ UNCHANGED Driver

\* for(;;) { hlt }: hlt returns on an interrupt and the loop runs it again.
KWake ==
    /\ kpc = HLT
    /\ kpc' = WOKEN
    /\ UNCHANGED <<Driver, kernel>>

KHalt ==
    /\ kpc = WOKEN
    /\ kpc' = NextPc(kpc)
    /\ UNCHANGED <<Driver, kernel>>

\* kmain moves on: every step but the interrupt that ends a hlt.
KRun == kpc # HLT /\ kpc' = NextPc(kpc)

KNext == KEnter \/ KInit \/ KWriteString \/ KWriteInt \/ KLogic \/ KWake
            \/ KHalt

SpecKernel == Init /\ [][KNext]_vars

\* The CPU keeps executing kmain; interrupts may or may not come.
SpecKernelFair == Init /\ [][KNext]_vars /\ WF_kpc(KRun)

(***************************************************************************)
(* The add line of kmain (kernel.c line 20) after a fresh vga_init, from   *)
(* any state one call of the driver leaves behind.                         *)
(***************************************************************************)
FortyTwo == [neg |-> FALSE, digits |-> <<4, 2>>]

E2EPrior ==
    /\ ncalls = 0
    /\ (vga_init \/ vga_write_string \/ vga_write_int)

E2EInit ==
    /\ ncalls = 1
    /\ Leave(init(Enter), InitCall)
    /\ UNCHANGED <<kpc, kernel>>

E2ELabel ==
    /\ ncalls = 2
    /\ \E ub \in UBOutcomes :
          \E st \in {write_string(Enter, AddLbl, color, ub)} :
              Leave(st, [op |-> "write_string", s |-> AddLbl, v |-> <<>>])
    /\ UNCHANGED <<kpc, kernel>>

E2EInt ==
    /\ ncalls = 3
    /\ \E ub \in UBOutcomes :
          \E st \in {write_int(Enter, Int64Of(FortyTwo), color, ub)} :
              Leave(st, [op |-> "write_int", s |-> <<>>, v |-> FortyTwo])
    /\ UNCHANGED <<kpc, kernel>>

E2ENext == E2EPrior \/ E2EInit \/ E2ELabel \/ E2EInt

SpecE2E == Init /\ [][E2ENext]_vars

\* The glyphs of "add(20,22): 42".
AddLine == <<97, 100, 100, 40, 50, 48, 44, 50, 50, 41, 58, 32, 52, 50>>

\* VGA' differs from VGA in the cells of span at most.
OnlyChanged(span) ==
    /\ DOMAIN VGA' = DOMAIN VGA \cup span
    /\ \A i \in DOMAIN VGA \ span : VGA'[i] = VGA[i]

\* C12: from any prior state, vga_init(), vga_write_string("add(20,22): ")
\* and vga_write_int(42) leave the cursor at (0, 14) and the glyphs of
\* "add(20,22): 42" in row 0 from column 0 on, left to right; no other cell
\* is changed.
C12_AddLineEndToEnd ==
    [][/\ ncalls = 1 => OnlyChanged({})
       /\ ncalls = 2 => OnlyChanged(0..11)
       /\ ncalls = 3 =>
             /\ OnlyChanged({12, 13})
             /\ row' = 0 /\ col' = Len(AddLbl) - 1 + 2 /\ col' = 14
             /\ \A i \in 1..Len(AddLine) :
                    VGA'[0 * WIDTH + (i - 1)] = Cell(color, AddLine[i])]_vars

C12_Witness ==
    /\ ncalls = 4
    /\ call = [op |-> "write_int", s |-> <<>>, v |-> FortyTwo]
    /\ row = 0 /\ col = 14
    /\ \E i \in DOMAIN VGA : i >= Len(AddLine)

(***************************************************************************)
(* kmain: what is called, in which order, and where it ends.               *)
(***************************************************************************)
\* The states of the kernel's life cycle, by the position of kmain.
Phase(pc) ==
    IF pc = 0 THEN "Boot"
    ELSE IF pc = 1 THEN "Initializing"
    ELSE IF pc \in 2..Len(Prog) THEN "Rendering"
    ELSE "Idle"

\* C13: in every execution of kmain each of banner, meaning, add, max2 and
\* demo_expr is invoked exactly once: never twice, all of them once when
\* the idle state is reached, and none from then on.
C13_LogicInvokedOnce ==
    [][/\ \A f \in Logic : kernel'.invoked[f] <= 1
       /\ Phase(kpc') = "Idle"
             => \A f \in Logic : kernel'.invoked[f] = 1
       /\ Phase(kpc) = "Idle" => kernel'.invoked = kernel.invoked]_vars

C13_Witness ==
    /\ kpc = WOKEN
    /\ \A f \in Logic : kernel.invoked[f] = 1

\* C14: if every generated function returns, kmain eventually reaches Idle,
\* and it gets there through Boot, Initializing and Rendering, in that
\* order.
C14_ReachesIdle ==
    /\ <>(Phase(kpc) = "Idle")
    /\ [][Phase(kpc') # Phase(kpc)
            => <<Phase(kpc), Phase(kpc')>> \in
                  {<<"Boot", "Initializing">>,
                   <<"Initializing", "Rendering">>,
                   <<"Rendering", "Idle">>}]_vars

C14_Witness ==
    /\ kpc = HLT
    /\ Len(kernel.trace) = Len(Prog)
    /\ kernel.trace[1] = InitCall

\* C15: Idle is absorbing: from the halt loop on kmain stays in it, every
\* wake is followed by the wait again, kmain neither returns nor goes back
\* to Boot, Initializing or Rendering, and the cursor and every cell of the
\* display stay as they are.
C15_IdleAbsorbing ==
    /\ [][Phase(kpc) = "Idle"
            => /\ kpc' \in {HLT, WOKEN}
               /\ kpc = WOKEN => kpc' = HLT
               /\ row' = row /\ col' = col /\ VGA' = VGA]_vars
    /\ (kpc = WOKEN) ~> (kpc = HLT)

C15_Witness ==
    /\ kpc = WOKEN
    /\ DOMAIN VGA # {}
    /\ call.s = Eol

WS(s) == [op |-> "write_string", s |-> s, v |-> <<>>]
WI(v) == [op |-> "write_int", s |-> <<>>, v |-> v]
Called(f, args) == [op |-> f, s |-> <<>>, v |-> args]

\* The calls an execution of kmain is to make, given what the generated
\* functions return.
Expected(ret) ==
    <<InitCall, WS(Online), WS(Eol),
      Called("banner", <<>>), Called("meaning", <<>>),
      Called("add", <<20, 22>>), Called("max2", <<11, 17>>),
      Called("demo_expr", <<>>),
      WS(BannerLbl), WS(ret["banner"]), WS(Eol),
      WS(MeaningLbl), WI(ret["meaning"]), WS(Eol),
      WS(AddLbl), WI(ret["add"]), WS(Eol),
      WS(Max2Lbl), WI(ret["max2"]), WS(Eol),
      WS(DemoLbl), WI(ret["demo_expr"]), WS(Eol)>>

IsPrefix(t, e) ==
    /\ Len(t) <= Len(e)
    /\ \A i \in 1..Len(t) : t[i].op = e[i].op /\ t[i] = e[i]

\* C16: kmain's calls are ordered: vga_init before every write to the
\* display; first the line "FUSE kernel online", from cell (0,0) on; every
\* generated function before any result line; then the lines for banner,
\* meaning, add(20,22), max2(11,17) and demo_expr, each its label, the
\* string or integer returned, and a newline.
C16_KernelOrder ==
    /\ IsPrefix(kernel.trace, Expected(kernel.ret))
    /\ kernel.trace = <<>> => DOMAIN VGA = {}
    /\ Len(kernel.trace) = 2
          => /\ call = WS(Online)
             /\ pre = [row |-> 0, col |-> 0]
             /\ stores = 0..(Len(Online) - 2)
             /\ \A i \in 1..(Len(Online) - 1) :
                    VGA[i - 1] = Cell(color, Online[i][1])

C16_Witness ==
    /\ kpc = HLT
    /\ kernel.trace = Expected(kernel.ret)
    /\ kernel.ret["banner"] = Str(<<72, 105>>)
    /\ kernel.ret["add"] = FortyTwo

\* The banner has returned a string without newline of at most 71
\* characters, or has not been called yet.
BannerFits ==
    \/ kernel.invoked["banner"] = 0
    \/ \E cs \in {Chars(kernel.ret["banner"], 1)} :
          Len(cs) <= 71 /\ \A i \in 1..Len(cs) : cs[i] # NL

\* The glyphs and the newlines a call has passed to putc.
GlyphsOf(em) == Cardinality({i \in 1..Len(em) : em[i][1] # NL})
NewlinesOf(em) == Cardinality({i \in 1..Len(em) : em[i][1] = NL})

\* The calls of a trace that end a line, and whether its last call leaves
\* kmain at the start of a line.
IsEol(c) == c.op = "write_string" /\ c.s = Eol
LinesEnded(tr) == Cardinality({i \in 1..Len(tr) : IsEol(tr[i])})
AtLineStart(tr) ==
    Len(tr) > 0 /\ (tr[Len(tr)].op = "init" \/ IsEol(tr[Len(tr)]))

\* C19: with a banner() of at most 71 characters and no newline, whatever
\* 64-bit values the other functions return, kmain's output never wraps:
\* only rows 0 to 5 are written, no cell twice, every line starts at
\* column 0, and the cursor is at (6, 0) when Idle is reached.
C19_NoWrap ==
    [][BannerFits' =>
         /\ wild' = {}
         /\ \A i \in stores' : i \div WIDTH \in 0..5 /\ i \notin DOMAIN VGA
         /\ stores' # {} => Cardinality(stores') = GlyphsOf(emitted')
         /\ NewlinesOf(emitted') = 0 => row' = row
         /\ AtLineStart(kernel'.trace)
               => col' = 0 /\ row' = LinesEnded(kernel'.trace)
         /\ Phase(kpc') = "Idle" => row' = 6 /\ col' = 0]_vars

C19_Witness ==
    /\ kpc = HLT
    /\ row = 6 /\ col = 0
    /\ kernel.ret["banner"] = <<<<66, 71>>, TERM>>
    /\ kernel.ret["max2"].neg
    /\ VGA[WIDTH + WIDTH - 2] = Cell(color, 66)

=============================================================================
